---- MODULE Spec2Model ----
(***************************************************************************)
(* Domain block reconciliation engine of router-manager-go (batch service) *)
(*                                                                         *)
(* The batch use case DomainBlockerUseCase.ProcessAllDomains exists in two *)
(* reconciliation policies in this repository:                             *)
(*   "additive": reboot detection, iterative discovery, add-only diff      *)
(*   "twoway"  : single resolution, add and remove diff, no reboot check   *)
(* The variable `variant` fixes which of the two is deployed.  Every       *)
(* external call of the engine (resolver, firewall, store, marker file)    *)
(* is one step of the state machine.                                       *)
(***************************************************************************)
EXTENDS Integers, FiniteSets, Sequences, TLC

(***************************************************************************)
(* Universe                                                                *)
(***************************************************************************)
\* the managed domains, in the order GetAllDomains returns them
DomainList == <<"a.example", "b.example">>

Domains == {DomainList[i] : i \in 1..Len(DomainList)}

\* the addresses a resolver can answer with
IPs == {"10.0.0.1", "10.0.0.2"}

\* cap on the number of identical drop rules the chain is followed to
MaxRules == 2

\* cap on the number of identical rows the address table is followed to
MaxRows == 2

\* configured ProcessingConfig.MaxDNSIterations
MaxDNSIterations == 3

\* largest configured DNSConfig.RetryAttempts the resolver is checked with
MaxRetryAttempts == 3

\* largest retry count of the resolver when it runs under the engine
MaxShippedRetry == 1

\* values of DNSConfig.RetryAttempts (the loader rejects negative ones)
RetryConfigs == 0..MaxRetryAttempts

\* value used by discoverAllIPs when the configured one is not positive
DefaultMaxDNSIterations == 5

\* values of ProcessingConfig.MaxDNSIterations the discovery is checked with
\* (0: not set, as the shipped configuration loader leaves it)
DNSIterationConfigs == {0, 1, 2, MaxDNSIterations + 1}

\* FIREWALL_DRY_RUN of the deployment that is modelled
dryRun == FALSE

Variants == {"additive", "twoway"}

\* faults the filesystem can show to one CheckAndHandleReboot call
FsFaults == {"none", "stat", "mkdir", "create", "write"}

NoCall == [op |-> "none", dom |-> "-", arg |-> "-", ok |-> TRUE]

\* the empty address table and the empty chain
NoRows == [p \in Domains \X IPs |-> 0]

NoRules == [ip \in IPs |-> 0]

\* what one LookupIP call of the resolver can come back with
LookupOutcomes ==
    {[err |-> TRUE, addrs |-> {}]}
        \cup {[err |-> FALSE, addrs |-> a] : a \in SUBSET IPs}

NoPre == [rows |-> NoRows, rules |-> NoRules, cmd |-> TRUE]

NoResult == [ips |-> {}, err |-> "none", attempts |-> 0, cause |-> "none"]

VARIABLES
    variant,        \* which reconciliation policy is deployed
    configMaxDNSIterations, \* uc.config.MaxDNSIterations
    pc,             \* position of ProcessAllDomains ("idle": not running)
    cancelled,      \* ctx.Done() of the running pass is closed
    flagDirExists,  \* /run/router-manager-batch exists
    flagFileExists, \* /run/router-manager-batch/executed exists
    fsFault,        \* fault the filesystem shows to the coming probe
    cleanupNeeded,  \* first result of CheckAndHandleReboot
    rebootErr,      \* second result of CheckAndHandleReboot is non-nil
    cleanupCalled,  \* DeleteAllDomainIPs was called in this pass
    firstPass,      \* no pass of this boot has ended before this one
    started,        \* domains whose discovery was started in this pass
    probedAbsent,   \* os.Stat of this pass reported the marker as missing
    listed,         \* GetAllDomains of this pass: "none", "ok", "err"
    rows,           \* domain_ips table: number of rows per <<domain, ip>>
    rules,          \* chain: number of "ip daddr <ip> drop" rules per ip
    di,             \* index of the domain being processed (0: none)
    ipsMap,         \* discoverAllIPs: accumulated set / discovered IPs
    iteration,      \* discoverAllIPs: loop counter (0: initial resolution)
    nCalls,         \* ResolveIPs calls of the discovery just made
    lastAns,        \* answer of the latest ResolveIPs of that discovery
    ipsToAdd,       \* remaining IPs of the add loop
    ipsToRemove,    \* remaining IPs of the remove loop (twoway)
    curIP,          \* IP between its firewall step and its store step
    retErr,         \* result of ProcessAllDomains: "none", "nil", "err"
    lastCall,       \* the latest call on a collaborator and its outcome
    clean,          \* no call of this pass failed, no cancellation
    prevClean,      \* previous pass of this boot was clean and every
                    \* discovery of this pass so far repeated its result
    failed,         \* domains for which a call of this pass failed
    resetFailed,    \* since boot: a marker-file fault or a failed cleanup
    stale,          \* rows written before the last boot may still be stored
    unblockFailed,  \* IPs whose row was deleted while the delete command
                    \* of their rule failed, and not resolved anew since
    untouched,      \* IPs of the domain in work that were both stored
                    \* and discovered when its diff was computed
    lastDisc,       \* per domain: latest discovery result
    pre,            \* table and chain before the latest direct port call,
                    \* and whether its command was executed
    retryAttempts,  \* r.retryAttempts of the resolver
    rpc,            \* position of one ResolveIPs call of the resolver
    attempt,        \* ResolveIPs: loop counter
    answers,        \* outcomes of the LookupIP calls made by that call
    lastErr,        \* ResolveIPs: lastErr ("none": nil)
    result          \* what ResolveIPs returned

vars == <<variant, configMaxDNSIterations, pre, retryAttempts, rpc, attempt,
          answers, lastErr, result, firstPass, nCalls, lastAns, pc,
          cancelled, flagDirExists, flagFileExists, fsFault,
          cleanupNeeded, rebootErr, cleanupCalled, started, probedAbsent,
          listed, rows, rules, di, ipsMap, iteration,
          ipsToAdd, ipsToRemove, curIP, retErr, lastCall, clean, prevClean,
          failed, resetFailed, stale, unblockFailed, untouched, lastDisc>>

confVars == <<variant, configMaxDNSIterations>>
resolverVars == <<retryAttempts, rpc, attempt, answers, lastErr, result>>
discVars == <<nCalls, lastAns>>
fsVars   == <<flagDirExists, flagFileExists>>
passVars == <<cleanupNeeded, rebootErr, cleanupCalled, started, probedAbsent,
              listed>>
loopVars == <<di, ipsMap, iteration, ipsToAdd, ipsToRemove, curIP>>

(***************************************************************************)
(* Faulty variants of single steps.  Each one replaces the step of the     *)
(* same name below in a sensitivity run and must break a property there.   *)
(***************************************************************************)
\* a diff that takes up the stored addresses as well
calculateIPChanges_Union(existingIPs, newIPs) == newIPs \cup existingIPs

\* a diff that does not subtract the stored addresses
calculateIPChanges_NoFilter(existingIPs, newIPs) == newIPs

\* a delete that takes every matching rule out of the chain
RemoveBlockRule_AllMatching(r, ip, ok) ==
    IF ok THEN [rules |-> [r EXCEPT ![ip] = 0], err |-> FALSE]
    ELSE [rules |-> r, err |-> FALSE]

\* a detector that writes the marker and asks for the cleanup on every call
CheckAndHandleReboot_AlwaysReset(dir, file, fault) ==
    [cleanup |-> TRUE, err |-> FALSE, dir |-> TRUE, file |-> TRUE]

\* a pass that goes on after a failed GetAllDomains
AfterGetAllDomains_Ignore(ok) == "resolve"

\* an addIP that persists the address although the firewall step failed
AfterAddBlockRule_Ignore(err) == "createDomainIP"

\* a pass that runs the cleanup whatever the detector answered
AfterCheckReboot_AlwaysCleanup(cleanup, err) == "deleteAll"

\* a pass that runs the cleanup also when the detector returned an error
AfterCheckReboot_CleanupOnError(cleanup, err) ==
    IF err \/ cleanup THEN "deleteAll" ELSE "getAllDomains"

\* a discovery that takes a failed initial resolution for an empty answer
AfterInitialResolve_ErrorIsEmpty(ok, n, max) ==
    IF ~ok THEN "return"
    ELSE IF n = 0 THEN "return"
    ELSE IF 1 < max THEN "wait"
    ELSE "return"

\* a discovery that fails on an empty initial answer
AfterInitialResolve_EmptyIsError(ok, n, max) ==
    IF ~ok \/ n = 0 THEN "fail"
    ELSE IF 1 < max THEN "wait"
    ELSE "return"

\* a wait that does not look at ctx.Done()
AfterWait_IgnoreDone(done) == "reresolve"

\* a loop that goes on to the maximum although the answer is stable
AfterIterate_IgnoreStable(ok, hasNewIPs, it, max) ==
    IF ~ok THEN "return"
    ELSE IF it + 1 < max THEN "wait"
    ELSE "return"

\* a loop that fails the discovery when a re-resolution fails
AfterIterate_FailOnError(ok, hasNewIPs, it, max) ==
    IF ~ok THEN "fail"
    ELSE IF ~hasNewIPs THEN "return"
    ELSE IF it + 1 < max THEN "wait"
    ELSE "return"

\* a delete that reports the failed command to its caller
RemoveBlockRule_ReportsFailure(r, ip, ok) ==
    IF ok /\ r[ip] > 0
    THEN [rules |-> [r EXCEPT ![ip] = @ - 1], err |-> FALSE]
    ELSE [rules |-> r, err |-> TRUE]

\* an insert that writes the address under every domain
CreateDomainIP_EveryDomain(t, d, ip, ok) ==
    IF ok /\ d \in Domains
    THEN [rows |-> [p \in Domains \X IPs |->
                       IF p[2] = ip THEN t[p] + 1 ELSE t[p]],
          err |-> FALSE]
    ELSE [rows |-> t, err |-> TRUE]

\* a delete that takes every address of the domain out of the table
DeleteDomainIP_WholeDomain(t, d, ip, ok) ==
    IF ok /\ t[<<d, ip>>] > 0
    THEN [rows |-> [p \in Domains \X IPs |-> IF p[1] = d THEN 0 ELSE t[p]],
          err |-> FALSE]
    ELSE [rows |-> t, err |-> TRUE]

\* a bulk delete that reports an empty table as an error
DeleteAllDomainIPs_FailsOnEmpty(t, ok) ==
    IF ok /\ t # NoRows
    THEN [rows |-> NoRows, err |-> FALSE]
    ELSE [rows |-> t, err |-> TRUE]

\* an addIP that persists the address only when the firewall step failed
AfterAddBlockRule_Inverted(err) == IF err THEN "createDomainIP" ELSE "return"

\* an addIP that takes the rule back after every insert
AfterCreateDomainIP_AlwaysRollback(err) == "rollback"

\* an addIP that leaves the rule in place after a failed insert
AfterCreateDomainIP_NoRollback(err) == "return"

\* a removal that takes the rule out although the row could not be deleted
AfterDeleteDomainIP_Ignore(err) == "removeBlockRule"

\* a backoff that sleeps on although the context is done
AfterBackoff_IgnoreDone(done) == "continue"

\* a retry loop that allows one attempt more
LoopGoesOn_OneMore(att, retry) == att <= retry + 1

\* a lookup that hands an empty address list on as a success
resolveWithTimeout_EmptyOk(o) ==
    IF o.err THEN [ips |-> {}, err |-> "lookup"]
    ELSE [ips |-> o.addrs, err |-> "none"]

(***************************************************************************)
(* Store (pkg/db)                                                          *)
(***************************************************************************)
\* the <<domain, ip>> pairs that have a row in table t
Pairs(t) == {p \in Domains \X IPs : t[p] > 0}

\* GetDomainIPs as the engine uses it: the addresses stored for d
StoredIPs(t, d) == {ip \in IPs : t[<<d, ip>>] > 0}

\* INSERT INTO domain_ips (domain_name, ip_address); ok = the statement was
\* executed by the server.  The table has the serial id as its only key
\* and the foreign key on domain_name, so the insert appends a row for
\* every registered domain, whether or not the pair is stored already.
CreateDomainIP(t, d, ip, ok) ==
    IF ok /\ d \in Domains
    THEN [rows |-> [t EXCEPT ![<<d, ip>>] = @ + 1], err |-> FALSE]
    ELSE [rows |-> t, err |-> TRUE]

\* DELETE FROM domain_ips WHERE domain_name = d AND ip_address = ip;
\* zero affected rows is reported as "not found"
DeleteDomainIP(t, d, ip, ok) ==
    IF ok /\ t[<<d, ip>>] > 0
    THEN [rows |-> [t EXCEPT ![<<d, ip>>] = 0], err |-> FALSE]
    ELSE [rows |-> t, err |-> TRUE]

\* bulk delete of every address row
DeleteAllDomainIPs(t, ok) ==
    IF ok THEN [rows |-> NoRows, err |-> FALSE] ELSE [rows |-> t, err |-> TRUE]

(***************************************************************************)
(* Firewall (NFTablesManager)                                              *)
(***************************************************************************)
\* nft add rule <family> <table> <chain> ip daddr <ip> drop
AddBlockRule(r, ip, ok) ==
    IF dryRun THEN [rules |-> r, err |-> FALSE]
    ELSE IF ok
         THEN [rules |-> [r EXCEPT ![ip] = @ + 1], err |-> FALSE]
         ELSE [rules |-> r, err |-> TRUE]

\* nft delete rule <family> <table> <chain> ip daddr <ip> drop
RemoveBlockRule(r, ip, ok) ==
    IF dryRun THEN [rules |-> r, err |-> FALSE]
    ELSE IF ok /\ r[ip] > 0
         THEN [rules |-> [r EXCEPT ![ip] = @ - 1], err |-> FALSE]
         ELSE [rules |-> r, err |-> FALSE]

(***************************************************************************)
(* Name resolver (dnsResolverImpl)                                         *)
(***************************************************************************)
\* resolveWithTimeout: what the outcome o of r.resolver.LookupIP becomes
resolveWithTimeout(o) ==
    IF o.err THEN [ips |-> {}, err |-> "lookup"]
    ELSE IF Cardinality(o.addrs) = 0 THEN [ips |-> {}, err |-> "no IPv4"]
    ELSE [ips |-> o.addrs, err |-> "none"]

\* ResolveIPs: the loop condition attempt <= r.retryAttempts
LoopGoesOn(att, retry) == att <= retry

\* ResolveIPs: what follows the lookup of attempt att that returned err
AfterLookup(err, att, retry) ==
    IF err = "none" THEN "return"
    ELSE IF att < retry THEN "backoff"
    ELSE "continue"

\* ResolveIPs: the select between ctx.Done() and the backoff timer
AfterBackoff(done) == IF done THEN "return" ELSE "continue"

\* the error returned when the loop is left: "after %d attempts: %w"
Exhausted(retry, cause) ==
    [ips |-> {}, err |-> "exhausted", attempts |-> retry + 1,
     cause |-> cause]

(***************************************************************************)
(* Reboot detector                                                         *)
(***************************************************************************)
\* result of one CheckAndHandleReboot call on filesystem <<dir, file>>
CheckAndHandleReboot(dir, file, fault) ==
    IF fault = "stat"
    THEN [cleanup |-> FALSE, err |-> TRUE, dir |-> dir, file |-> file]
    ELSE IF file
    THEN [cleanup |-> FALSE, err |-> FALSE, dir |-> dir, file |-> file]
    ELSE IF fault = "mkdir"
    THEN [cleanup |-> TRUE, err |-> TRUE, dir |-> dir, file |-> file]
    ELSE IF fault = "create"
    THEN [cleanup |-> TRUE, err |-> FALSE, dir |-> TRUE, file |-> FALSE]
    ELSE [cleanup |-> TRUE, err |-> FALSE, dir |-> TRUE, file |-> TRUE]

\* the fault was met by the call (a fault behind an early return is not)
FaultHit(file, fault) ==
    \/ fault = "stat"
    \/ ~file /\ fault \in {"mkdir", "create", "write"}

(***************************************************************************)
(* Engine, pure parts                                                      *)
(***************************************************************************)
\* additive policy: IPs of newIPs that are not stored
calculateIPChanges(existingIPs, newIPs) == newIPs \ existingIPs

\* twoway policy: <<ipsToAdd, ipsToRemove>>
calculateIPChanges2(existingIPs, newIPs) ==
    <<newIPs \ existingIPs, existingIPs \ newIPs>>

\* faulty variant: a loop that allows one iteration more
maxIterations_PlusOne ==
    IF configMaxDNSIterations <= 0
    THEN DefaultMaxDNSIterations + 1
    ELSE configMaxDNSIterations + 1

maxIterations ==
    IF configMaxDNSIterations <= 0
    THEN DefaultMaxDNSIterations
    ELSE configMaxDNSIterations

Domain == IF di \in 1..Len(DomainList) THEN DomainList[di] ELSE "-"

Call(op, arg, ok) == [op |-> op, dom |-> Domain, arg |-> arg, ok |-> ok]

\* ProcessAllDomains: where to go with the results of CheckAndHandleReboot
AfterCheckReboot(cleanup, err) ==
    IF err THEN "getAllDomains"
    ELSE IF cleanup THEN "deleteAll"
    ELSE "getAllDomains"

\* ProcessAllDomains: a failed GetAllDomains is returned to the caller
AfterGetAllDomains(ok) == IF ok THEN "resolve" ELSE "return err"

\* addIP: a failed AddBlockRule ends the step for this IP
AfterAddBlockRule(err) == IF err THEN "return" ELSE "createDomainIP"

\* addIP: a failed CreateDomainIP is followed by the rollback
AfterCreateDomainIP(err) == IF err THEN "rollback" ELSE "return"

\* discoverAllIPs: what follows the initial resolution that returned n
\* addresses, with max the number of iterations allowed
AfterInitialResolve(ok, n, max) ==
    IF ~ok THEN "fail"
    ELSE IF n = 0 THEN "return"
    ELSE IF 1 < max THEN "wait"
    ELSE "return"

\* discoverAllIPs: the select between ctx.Done() and the timer
AfterWait(done) == IF done THEN "fail" ELSE "reresolve"

\* discoverAllIPs: what follows the re-resolution of loop iteration it
AfterIterate(ok, hasNewIPs, it, max) ==
    IF ~ok THEN "return"
    ELSE IF ~hasNewIPs THEN "return"
    ELSE IF it + 1 < max THEN "wait"
    ELSE "return"

\* applyIPChanges: a failed DeleteDomainIP skips the firewall step
AfterDeleteDomainIP(err) == IF err THEN "continue" ELSE "removeBlockRule"

NoDisc == [ok |-> FALSE, ips |-> {}]

NoDiscs == [d \in Domains |-> NoDisc]

\* outcomes of a call that takes ctx: it fails once ctx is cancelled
Outcomes == IF cancelled THEN {FALSE} ELSE BOOLEAN

(***************************************************************************)
(* Initial state: fresh installation, machine just booted                  *)
(***************************************************************************)
\* no direct port call and no resolver call has been made
InitSide ==
    /\ pre = NoPre
    /\ rpc = "idle"
    /\ attempt = 0
    /\ answers = <<>>
    /\ lastErr = "none"
    /\ result = NoResult

Init ==
    /\ variant \in Variants
    /\ configMaxDNSIterations = MaxDNSIterations
    /\ retryAttempts = MaxRetryAttempts
    /\ InitSide
    /\ firstPass = TRUE
    /\ nCalls = 0
    /\ lastAns = {}
    /\ pc = "idle"
    /\ cancelled = FALSE
    /\ flagDirExists = FALSE
    /\ flagFileExists = FALSE
    /\ fsFault = "none"
    /\ cleanupNeeded = FALSE
    /\ rebootErr = FALSE
    /\ cleanupCalled = FALSE
    /\ started = <<>>
    /\ probedAbsent = FALSE
    /\ listed = "none"
    /\ rows = NoRows
    /\ rules = NoRules
    /\ di = 0
    /\ ipsMap = {}
    /\ iteration = 0
    /\ ipsToAdd = {}
    /\ ipsToRemove = {}
    /\ curIP = "-"
    /\ retErr = "none"
    /\ lastCall = NoCall
    /\ clean = FALSE
    /\ prevClean = FALSE
    /\ failed = {}
    /\ resetFailed = FALSE
    /\ stale = FALSE
    /\ unblockFailed = {}
    /\ untouched = {}
    /\ lastDisc = NoDiscs

(***************************************************************************)
(* History bookkeeping: lastDisc and prevClean are kept only while they can *)
(* still matter (the pass is clean), so that disturbed passes do not carry *)
(* them along                                                              *)
(***************************************************************************)
\* entries of the domains after position i are forgotten
ForgetAfter(ld, i) ==
    [d \in Domains |->
        IF \E j \in 1..i : DomainList[j] = d THEN ld[d] ELSE NoDisc]

\* a call of this pass returned with outcome ok
Outcome(ok) ==
    /\ clean' = (clean /\ ok)
    /\ prevClean' = (prevClean /\ clean /\ ok)
    /\ lastDisc' = IF clean /\ ok THEN lastDisc ELSE NoDiscs
    /\ failed' = IF ok THEN failed ELSE failed \cup ({Domain} \cap Domains)

(***************************************************************************)
(* Control flow helpers                                                    *)
(***************************************************************************)
\* faulty variant: a domain whose loops are done is diffed again instead
\* of being left
Advance_Reread(add, rem) ==
    IF add # {}
    THEN pc' = "addBlockRule" /\ di' = di /\ retErr' = retErr
    ELSE IF rem # {}
    THEN pc' = "deleteDomainIP" /\ di' = di /\ retErr' = retErr
    ELSE pc' = "getDomainIPs" /\ di' = di /\ retErr' = retErr

\* position after one IP of a loop is finished: the rest of the add loop,
\* then the remove loop, then the next domain, then return nil
Advance(add, rem) ==
    IF add # {}
    THEN pc' = "addBlockRule" /\ di' = di /\ retErr' = retErr
    ELSE IF rem # {}
    THEN pc' = "deleteDomainIP" /\ di' = di /\ retErr' = retErr
    ELSE IF di < Len(DomainList)
    THEN pc' = "resolve" /\ di' = di + 1 /\ retErr' = retErr
    ELSE pc' = "idle" /\ di' = 0 /\ retErr' = "nil"

\* the record of the diff is dropped when the loops of the domain are done
Leave(add, rem) ==
    untouched' = IF add = {} /\ rem = {} THEN {} ELSE untouched

\* faulty variant: the first failing domain ends the pass
DomainFailed_Abort ==
    /\ ipsMap' = {}
    /\ iteration' = 0
    /\ ipsToAdd' = {}
    /\ ipsToRemove' = {}
    /\ curIP' = "-"
    /\ nCalls' = 0
    /\ lastAns' = {}
    /\ Outcome(FALSE)
    /\ pc' = "idle"
    /\ di' = 0
    /\ retErr' = "nil"

\* processDomain returned an error: log and continue with the next domain
DomainFailed ==
    /\ ipsMap' = {}
    /\ iteration' = 0
    /\ ipsToAdd' = {}
    /\ ipsToRemove' = {}
    /\ curIP' = "-"
    /\ nCalls' = 0
    /\ lastAns' = {}
    /\ Outcome(FALSE)
    /\ Advance({}, {})

\* discoverAllIPs returned an error
DiscoveryFailed == DomainFailed

\* discoverAllIPs returned the set found
DiscoveryDone(found, ok) ==
    LET same == prevClean /\ lastDisc[Domain] = [ok |-> TRUE, ips |-> found]
    IN  /\ ipsMap' = found
        /\ iteration' = 0
        /\ pc' = "getDomainIPs"
        /\ clean' = (clean /\ ok)
        /\ prevClean' = (clean /\ ok /\ same)
        /\ failed' = IF ok THEN failed ELSE failed \cup {Domain}
        /\ lastDisc' =
              IF ~(clean /\ ok) THEN NoDiscs
              ELSE IF same THEN lastDisc
              ELSE [ForgetAfter(lastDisc, di) EXCEPT
                       ![Domain] = [ok |-> TRUE, ips |-> found]]
        /\ UNCHANGED <<di, ipsToAdd, ipsToRemove, curIP, retErr>>

(***************************************************************************)
(* Environment                                                             *)
(***************************************************************************)
\* the scheduler starts the batch: one run of main
StartPass ==
    /\ pc = "idle"
    /\ pc' = IF variant = "additive" THEN "checkReboot" ELSE "getAllDomains"
    /\ fsFault' \in (IF variant = "additive" THEN FsFaults ELSE {"none"})
    /\ cancelled' = FALSE
    /\ cleanupNeeded' = FALSE
    /\ rebootErr' = FALSE
    /\ cleanupCalled' = FALSE
    /\ started' = <<>>
    /\ probedAbsent' = FALSE
    /\ listed' = "none"
    /\ failed' = {}
    /\ retErr' = "none"
    /\ lastCall' = NoCall
    /\ prevClean' = (clean /\ retErr = "nil")
    /\ clean' = TRUE
    /\ lastDisc' = IF clean /\ retErr = "nil" THEN lastDisc ELSE NoDiscs
    /\ firstPass' = (retErr = "none")
    /\ UNCHANGED <<confVars, pre, resolverVars, discVars, fsVars, rows, rules, loopVars, resetFailed, stale, unblockFailed, untouched>>

\* SIGINT / SIGTERM closes the context of the running pass
Cancel ==
    /\ pc # "idle"
    /\ ~cancelled
    /\ cancelled' = TRUE
    /\ clean' = FALSE
    /\ prevClean' = FALSE
    /\ lastDisc' = NoDiscs
    /\ UNCHANGED <<confVars, pre, resolverVars, firstPass, discVars, pc, fsVars, fsFault, passVars, rows, rules,
                   loopVars, retErr, lastCall, failed, resetFailed, stale, unblockFailed, untouched>>

\* the machine reboots: the chain and /run are empty again, the table stays
Reboot ==
    /\ pc = "idle"
    /\ retErr # "none"
    /\ rules' = NoRules
    /\ flagDirExists' = FALSE
    /\ flagFileExists' = FALSE
    /\ cleanupNeeded' = FALSE
    /\ rebootErr' = FALSE
    /\ cleanupCalled' = FALSE
    /\ started' = <<>>
    /\ probedAbsent' = FALSE
    /\ listed' = "none"
    /\ failed' = {}
    /\ retErr' = "none"
    /\ lastCall' = NoCall
    /\ clean' = FALSE
    /\ prevClean' = FALSE
    /\ resetFailed' = FALSE
    /\ stale' = (rows # NoRows)
    /\ unblockFailed' = {}
    /\ UNCHANGED untouched
    /\ lastDisc' = NoDiscs
    /\ firstPass' = TRUE
    /\ UNCHANGED <<confVars, pre, resolverVars, discVars, pc, cancelled, fsFault, rows, loopVars>>

(***************************************************************************)
(* ProcessAllDomains                                                       *)
(***************************************************************************)
\* additive: uc.rebootDetector.CheckAndHandleReboot(ctx) and the branch on it
ProcessAllDomains_CheckReboot ==
    /\ pc = "checkReboot"
    /\ LET res == CheckAndHandleReboot(flagDirExists, flagFileExists, fsFault)
           hit == FaultHit(flagFileExists, fsFault)
       IN  /\ cleanupNeeded' = res.cleanup
           /\ rebootErr' = res.err
           /\ flagDirExists' = res.dir
           /\ flagFileExists' = res.file
           /\ lastCall' = Call("CheckAndHandleReboot", "-", ~res.err)
           /\ Outcome(~hit)
           /\ resetFailed' = (resetFailed \/ hit)
           /\ pc' = AfterCheckReboot(res.cleanup, res.err)
    /\ probedAbsent' = (~flagFileExists /\ fsFault # "stat")
    /\ fsFault' = "none"
    /\ UNCHANGED <<confVars, pre, resolverVars, firstPass, discVars, cancelled, cleanupCalled, started, listed, rows,
                   rules, loopVars, retErr, stale, unblockFailed, untouched>>

\* additive: uc.domainRepo.DeleteAllDomainIPs(ctx)
ProcessAllDomains_Cleanup ==
    /\ pc = "deleteAll"
    /\ \E ok \in Outcomes :
         LET res == DeleteAllDomainIPs(rows, ok)
         IN  /\ rows' = res.rows
             /\ lastCall' = Call("DeleteAllDomainIPs", "-", ~res.err)
             /\ Outcome(~res.err)
             /\ resetFailed' = (resetFailed \/ res.err)
             /\ stale' = (stale /\ res.err)
             /\ UNCHANGED <<unblockFailed, untouched>>
    /\ pc' = "getAllDomains"
    /\ cleanupCalled' = TRUE
    /\ UNCHANGED <<confVars, pre, resolverVars, firstPass, discVars, cancelled, fsVars, fsFault, cleanupNeeded, rebootErr,
                   started, probedAbsent, listed, rules, loopVars, retErr>>

\* uc.domainRepo.GetAllDomains(ctx)
ProcessAllDomains_GetAllDomains ==
    /\ pc = "getAllDomains"
    /\ \E ok \in Outcomes :
         /\ lastCall' = Call("GetAllDomains", "-", ok)
         /\ listed' = IF ok THEN "ok" ELSE "err"
         /\ Outcome(ok)
         /\ IF AfterGetAllDomains(ok) = "resolve"
            THEN /\ pc' = "resolve"
                 /\ di' = 1
                 /\ retErr' = retErr
            ELSE /\ pc' = "idle"
                 /\ di' = 0
                 /\ retErr' = "err"
    /\ UNCHANGED <<confVars, pre, resolverVars, firstPass, discVars, cancelled, fsVars, fsFault, cleanupNeeded, rebootErr,
                   cleanupCalled, started, probedAbsent, rows, rules, ipsMap,
                   iteration, ipsToAdd, ipsToRemove, curIP, resetFailed, stale, unblockFailed, untouched>>

(***************************************************************************)
(* discoverAllIPs                                                          *)
(***************************************************************************)
\* the first uc.dnsResolver.ResolveIPs(ctx, domain)
InitialResolved(ok, ans) ==
    /\ pc = "resolve"
    /\ started' = Append(started, Domain)
    /\ lastCall' = Call("ResolveIPs", Domain, ok)
    /\ LET max  == IF variant = "additive" THEN maxIterations ELSE 1
           next == AfterInitialResolve(ok, Cardinality(ans), max)
       IN  IF next = "fail"
           THEN DiscoveryFailed
           ELSE /\ nCalls' = 1
                /\ lastAns' = ans
                /\ IF next = "wait"
                   THEN /\ ipsMap' = ans
                        /\ iteration' = 1
                        /\ pc' = "wait"
                        /\ UNCHANGED <<di, ipsToAdd, ipsToRemove, curIP,
                                       retErr, clean, prevClean, failed,
                                       lastDisc>>
                   ELSE DiscoveryDone(ans, TRUE)
    /\ UNCHANGED <<confVars, pre, firstPass, cancelled, fsVars, fsFault,
                   cleanupNeeded, rebootErr, cleanupCalled, probedAbsent,
                   listed, rows, rules, resetFailed, stale, unblockFailed, untouched>>

\* the first resolution of a domain, with any result the interface allows
discoverAllIPs_Initial ==
    /\ \E ok \in Outcomes, ans \in SUBSET IPs :
         /\ ~ok => ans = {}
         /\ InitialResolved(ok, ans)
    /\ UNCHANGED resolverVars

\* additive: select on ctx.Done() and time.After(30 * time.Second)
discoverAllIPs_Wait ==
    /\ pc = "wait"
    /\ IF AfterWait(cancelled) = "fail"
       THEN DiscoveryFailed
       ELSE /\ pc' = "reresolve"
            /\ UNCHANGED <<loopVars, discVars, retErr, clean, prevClean,
                           failed, lastDisc>>
    /\ UNCHANGED <<confVars, pre, resolverVars, firstPass, cancelled, fsVars, fsFault, passVars,
                   rows, rules, lastCall, resetFailed, stale, unblockFailed, untouched>>

\* additive: uc.dnsResolver.ResolveIPs(ctx, domain) of one loop iteration
ReResolved(ok, ans) ==
    /\ pc = "reresolve"
    /\ lastCall' = Call("ResolveIPs", Domain, ok)
    /\ LET next == AfterIterate(ok, ans \ ipsMap # {}, iteration,
                                maxIterations)
       IN  IF next = "fail"
           THEN DiscoveryFailed
           ELSE /\ nCalls' = nCalls + 1
                /\ lastAns' = ans
                /\ IF next = "wait"
                   THEN /\ ipsMap' = ipsMap \cup ans
                        /\ iteration' = iteration + 1
                        /\ pc' = "wait"
                        /\ UNCHANGED <<di, ipsToAdd, ipsToRemove, curIP,
                                       retErr, clean, prevClean, failed,
                                       lastDisc>>
                   ELSE DiscoveryDone(ipsMap \cup ans, ok)
    /\ UNCHANGED <<confVars, pre, firstPass, cancelled, fsVars, fsFault, passVars,
                   rows, rules, resetFailed, stale, unblockFailed, untouched>>

\* one re-resolution of the loop, with any result the interface allows
discoverAllIPs_Iterate ==
    /\ \E ok \in Outcomes, ans \in SUBSET IPs :
         /\ ~ok => ans = {}
         /\ ReResolved(ok, ans)
    /\ UNCHANGED resolverVars

(***************************************************************************)
(* updateFirewallRules                                                     *)
(***************************************************************************)
\* getExistingIPs and calculateIPChanges
updateFirewallRules_Diff ==
    /\ pc = "getDomainIPs"
    /\ \E ok \in Outcomes :
         /\ lastCall' = Call("GetDomainIPs", Domain, ok)
         /\ IF ~ok
            THEN DomainFailed /\ UNCHANGED untouched
            ELSE LET existingIPs == StoredIPs(rows, Domain)
                     add == IF variant = "additive"
                            THEN calculateIPChanges(existingIPs, ipsMap)
                            ELSE calculateIPChanges2(existingIPs, ipsMap)[1]
                     rem == IF variant = "additive"
                            THEN {}
                            ELSE calculateIPChanges2(existingIPs, ipsMap)[2]
                 IN  /\ ipsToAdd' = add
                     /\ ipsToRemove' = rem
                     /\ ipsMap' = {}
                     /\ iteration' = 0
                     /\ curIP' = "-"
                     /\ nCalls' = 0
                     /\ lastAns' = {}
                     /\ Outcome(TRUE)
                     /\ Advance(add, rem)
                     /\ untouched' = IF add = {} /\ rem = {} THEN {}
                                     ELSE existingIPs \cap ipsMap
    /\ UNCHANGED <<confVars, pre, resolverVars, firstPass, cancelled, fsVars, fsFault, passVars,
                   rows, rules, resetFailed, stale, unblockFailed>>

\* addIP: uc.firewallManager.AddBlockRule(ctx, ip) for the next IP to add
addIP_AddBlockRule ==
    /\ pc = "addBlockRule"
    /\ \E ip \in ipsToAdd, ok \in Outcomes :
         /\ ok => rules[ip] < MaxRules
         /\ LET res == AddBlockRule(rules, ip, ok)
            IN  /\ rules' = res.rules
                /\ lastCall' = Call("AddBlockRule", ip, ~res.err)
                /\ Outcome(~res.err)
                /\ ipsToAdd' = ipsToAdd \ {ip}
                /\ unblockFailed' = unblockFailed \ {ip}
                /\ IF AfterAddBlockRule(res.err) = "return"
                   THEN /\ curIP' = "-"
                        /\ Advance(ipsToAdd \ {ip}, ipsToRemove)
                        /\ Leave(ipsToAdd \ {ip}, ipsToRemove)
                   ELSE /\ curIP' = ip
                        /\ pc' = "createDomainIP"
                        /\ UNCHANGED <<di, retErr, untouched>>
    /\ UNCHANGED <<confVars, pre, resolverVars, firstPass, discVars, cancelled, fsVars, fsFault, passVars,
                   rows, ipsMap, iteration, ipsToRemove, resetFailed, stale>>

\* addIP: uc.domainRepo.CreateDomainIP(ctx, domain, ip)
addIP_CreateDomainIP ==
    /\ pc = "createDomainIP"
    /\ \E ok \in Outcomes :
         LET res == CreateDomainIP(rows, Domain, curIP, ok)
         IN  /\ ok => rows[<<Domain, curIP>>] < MaxRows
             /\ rows' = res.rows
             /\ lastCall' = Call("CreateDomainIP", curIP, ~res.err)
             /\ Outcome(~res.err)
             /\ IF AfterCreateDomainIP(res.err) = "rollback"
                THEN /\ pc' = "rollback"
                     /\ UNCHANGED <<di, retErr, curIP, untouched>>
                ELSE /\ curIP' = "-"
                     /\ Advance(ipsToAdd, ipsToRemove)
                     /\ Leave(ipsToAdd, ipsToRemove)
    /\ UNCHANGED <<confVars, pre, resolverVars, firstPass, discVars, cancelled, fsVars, fsFault, passVars,
                   rules, ipsMap, iteration, ipsToAdd, ipsToRemove, resetFailed, stale, unblockFailed>>

\* addIP: uc.firewallManager.RemoveBlockRule(ctx, ip) after a failed insert
addIP_Rollback ==
    /\ pc = "rollback"
    /\ \E ok \in Outcomes :
         LET res == RemoveBlockRule(rules, curIP, ok)
         IN  /\ rules' = res.rules
             /\ lastCall' = Call("RemoveBlockRule", curIP, ~res.err)
    /\ curIP' = "-"
    /\ Advance(ipsToAdd, ipsToRemove)
    /\ Leave(ipsToAdd, ipsToRemove)
    /\ UNCHANGED <<confVars, pre, resolverVars, firstPass, discVars, cancelled, fsVars, fsFault, passVars,
                   rows, ipsMap, iteration, ipsToAdd, ipsToRemove, clean,
                   prevClean, failed, resetFailed, stale, unblockFailed, lastDisc>>

\* twoway: uc.domainRepo.DeleteDomainIP(ctx, domain, ip) for an obsolete IP
applyIPChanges_DeleteDomainIP ==
    /\ pc = "deleteDomainIP"
    /\ \E ip \in ipsToRemove, ok \in Outcomes :
         LET res == DeleteDomainIP(rows, Domain, ip, ok)
         IN  /\ rows' = res.rows
             /\ lastCall' = Call("DeleteDomainIP", ip, ~res.err)
             /\ Outcome(~res.err)
             /\ ipsToRemove' = ipsToRemove \ {ip}
             /\ IF AfterDeleteDomainIP(res.err) = "continue"
                THEN /\ curIP' = "-"
                     /\ Advance({}, ipsToRemove \ {ip})
                     /\ Leave({}, ipsToRemove \ {ip})
                ELSE /\ curIP' = ip
                     /\ pc' = "removeBlockRule"
                     /\ UNCHANGED <<di, retErr, untouched>>
    /\ UNCHANGED <<confVars, pre, resolverVars, firstPass, discVars, cancelled, fsVars, fsFault, passVars,
                   rules, ipsMap, iteration, ipsToAdd, resetFailed, stale, unblockFailed>>

\* twoway: uc.firewallManager.RemoveBlockRule(ctx, ip) for an obsolete IP
applyIPChanges_RemoveBlockRule ==
    /\ pc = "removeBlockRule"
    /\ \E ok \in Outcomes :
         LET res == RemoveBlockRule(rules, curIP, ok)
         IN  /\ rules' = res.rules
             /\ lastCall' = Call("RemoveBlockRule", curIP, ~res.err)
             /\ Outcome(ok /\ rules[curIP] > 0)
             /\ unblockFailed' = IF ~ok /\ res.rules[curIP] > 0
                                 THEN unblockFailed \cup {curIP}
                                 ELSE unblockFailed \ {curIP}
    /\ curIP' = "-"
    /\ Advance({}, ipsToRemove)
    /\ Leave({}, ipsToRemove)
    /\ UNCHANGED <<confVars, pre, resolverVars, firstPass, discVars, cancelled, fsVars, fsFault, passVars,
                   rows, ipsMap, iteration, ipsToAdd, ipsToRemove, resetFailed, stale>>

Next ==
    \/ StartPass
    \/ Cancel
    \/ Reboot
    \/ ProcessAllDomains_CheckReboot
    \/ ProcessAllDomains_Cleanup
    \/ ProcessAllDomains_GetAllDomains
    \/ discoverAllIPs_Initial
    \/ discoverAllIPs_Wait
    \/ discoverAllIPs_Iterate
    \/ updateFirewallRules_Diff
    \/ addIP_AddBlockRule
    \/ addIP_CreateDomainIP
    \/ addIP_Rollback
    \/ applyIPChanges_DeleteDomainIP
    \/ applyIPChanges_RemoveBlockRule

Spec == Init /\ [][Next]_vars

(***************************************************************************)
(* The additive engine within one boot, under every configured iteration   *)
(* maximum                                                                 *)
(***************************************************************************)
InitDiscovery ==
    /\ variant = "additive"
    /\ configMaxDNSIterations \in DNSIterationConfigs
    /\ retryAttempts = MaxRetryAttempts
    /\ InitSide
    /\ firstPass = TRUE
    /\ nCalls = 0
    /\ lastAns = {}
    /\ pc = "idle"
    /\ cancelled = FALSE
    /\ flagDirExists = FALSE
    /\ flagFileExists = FALSE
    /\ fsFault = "none"
    /\ cleanupNeeded = FALSE
    /\ rebootErr = FALSE
    /\ cleanupCalled = FALSE
    /\ started = <<>>
    /\ probedAbsent = FALSE
    /\ listed = "none"
    /\ rows = NoRows
    /\ rules = NoRules
    /\ di = 0
    /\ ipsMap = {}
    /\ iteration = 0
    /\ ipsToAdd = {}
    /\ ipsToRemove = {}
    /\ curIP = "-"
    /\ retErr = "none"
    /\ lastCall = NoCall
    /\ clean = FALSE
    /\ prevClean = FALSE
    /\ failed = {}
    /\ resetFailed = FALSE
    /\ stale = FALSE
    /\ unblockFailed = {}
    /\ untouched = {}
    /\ lastDisc = NoDiscs

NextDiscovery ==
    \/ StartPass
    \/ Cancel
    \/ ProcessAllDomains_CheckReboot
    \/ ProcessAllDomains_Cleanup
    \/ ProcessAllDomains_GetAllDomains
    \/ discoverAllIPs_Initial
    \/ discoverAllIPs_Wait
    \/ discoverAllIPs_Iterate
    \/ updateFirewallRules_Diff
    \/ addIP_AddBlockRule
    \/ addIP_CreateDomainIP
    \/ addIP_Rollback

SpecDiscovery == InitDiscovery /\ [][NextDiscovery]_vars

(***************************************************************************)
(* One ResolveIPs call of the resolver after the other, under every        *)
(* configured retry count                                                  *)
(***************************************************************************)
InitResolver ==
    /\ variant = "additive"
    /\ configMaxDNSIterations = MaxDNSIterations
    /\ retryAttempts \in RetryConfigs
    /\ InitSide
    /\ firstPass = TRUE
    /\ nCalls = 0
    /\ lastAns = {}
    /\ pc = "idle"
    /\ cancelled = FALSE
    /\ flagDirExists = FALSE
    /\ flagFileExists = FALSE
    /\ fsFault = "none"
    /\ cleanupNeeded = FALSE
    /\ rebootErr = FALSE
    /\ cleanupCalled = FALSE
    /\ started = <<>>
    /\ probedAbsent = FALSE
    /\ listed = "none"
    /\ rows = NoRows
    /\ rules = NoRules
    /\ di = 0
    /\ ipsMap = {}
    /\ iteration = 0
    /\ ipsToAdd = {}
    /\ ipsToRemove = {}
    /\ curIP = "-"
    /\ retErr = "none"
    /\ lastCall = NoCall
    /\ clean = FALSE
    /\ prevClean = FALSE
    /\ failed = {}
    /\ resetFailed = FALSE
    /\ stale = FALSE
    /\ unblockFailed = {}
    /\ untouched = {}
    /\ lastDisc = NoDiscs

\* the variables of the engine, which no resolver step touches
engineVars == <<confVars, pre, firstPass, discVars, pc, fsVars, fsFault,
                passVars, rows, rules, loopVars, retErr, lastCall, clean,
                prevClean, failed, resetFailed, stale, unblockFailed, untouched, lastDisc>>

\* the rest of the loop after attempt att has failed and was not followed
\* by a return: attempt++, the loop condition, the error behind the loop
NextAttempt(att, cause) ==
    /\ attempt' = att + 1
    /\ IF LoopGoesOn(att + 1, retryAttempts)
       THEN rpc' = "lookup" /\ result' = result
       ELSE rpc' = "done" /\ result' = Exhausted(retryAttempts, cause)

\* ResolveIPs(ctx, domain) is called with a fresh context
ResolveIPs_Call ==
    /\ rpc \in {"idle", "done"}
    /\ cancelled' = FALSE
    /\ answers' = <<>>
    /\ lastErr' = "none"
    /\ attempt' = 0
    /\ IF LoopGoesOn(0, retryAttempts)
       THEN rpc' = "lookup" /\ result' = NoResult
       ELSE rpc' = "done" /\ result' = Exhausted(retryAttempts, "none")
    /\ UNCHANGED <<engineVars, retryAttempts>>

\* ctx.Done() of the call is closed
ResolveIPs_Cancel ==
    /\ rpc \in {"lookup", "backoff"}
    /\ ~cancelled
    /\ cancelled' = TRUE
    /\ UNCHANGED <<engineVars, resolverVars>>

\* r.resolveWithTimeout(ctx, domain) of one attempt and the branch on it
ResolveIPs_Lookup ==
    /\ rpc = "lookup"
    /\ \E o \in LookupOutcomes :
         /\ cancelled => o.err
         /\ answers' = Append(answers, o)
         /\ LET res  == resolveWithTimeout(o)
                next == AfterLookup(res.err, attempt, retryAttempts)
            IN  IF next = "return"
                THEN /\ rpc' = "done"
                     /\ result' = [ips |-> res.ips, err |-> "none",
                                   attempts |-> 0, cause |-> "none"]
                     /\ UNCHANGED <<attempt, lastErr>>
                ELSE /\ lastErr' = res.err
                     /\ IF next = "backoff"
                        THEN /\ rpc' = "backoff"
                             /\ UNCHANGED <<attempt, result>>
                        ELSE NextAttempt(attempt, res.err)
    /\ UNCHANGED <<engineVars, retryAttempts, cancelled>>

\* the select on ctx.Done() and time.After between two attempts
ResolveIPs_Backoff ==
    /\ rpc = "backoff"
    /\ IF AfterBackoff(cancelled) = "return"
       THEN /\ rpc' = "done"
            /\ result' = [ips |-> {}, err |-> "ctx", attempts |-> 0,
                          cause |-> "none"]
            /\ attempt' = attempt
       ELSE NextAttempt(attempt, lastErr)
    /\ UNCHANGED <<engineVars, retryAttempts, cancelled, answers, lastErr>>

NextResolver ==
    \/ ResolveIPs_Call
    \/ ResolveIPs_Cancel
    \/ ResolveIPs_Lookup
    \/ ResolveIPs_Backoff

SpecResolver == InitResolver /\ [][NextResolver]_vars

(***************************************************************************)
(* The store and the firewall manager called directly, one call after the  *)
(* other in any order with any argument (the way the repository tests and  *)
(* the other services of the repository use them)                          *)
(***************************************************************************)
InitPorts == Init /\ variant = "additive"

\* the variables no direct port call touches
portFrame == <<confVars, resolverVars, firstPass, discVars, pc, cancelled,
               fsVars, fsFault, passVars, loopVars, retErr, clean, prevClean,
               failed, resetFailed, stale, unblockFailed, untouched, lastDisc>>

PortCall(op, d, ip, err) == [op |-> op, dom |-> d, arg |-> ip, ok |-> ~err]

Before(cmd) == [rows |-> rows, rules |-> rules, cmd |-> cmd]

\* db.CreateDomainIP(domainName, ipAddress)
Port_CreateDomainIP ==
    /\ \E d \in Domains, ip \in IPs, ok \in BOOLEAN :
         LET res == CreateDomainIP(rows, d, ip, ok)
         IN  /\ ok => rows[<<d, ip>>] < MaxRows
             /\ rows' = res.rows
             /\ pre' = Before(ok)
             /\ lastCall' = PortCall("CreateDomainIP", d, ip, res.err)
    /\ UNCHANGED <<portFrame, rules>>

\* db.DeleteDomainIP(domainName, ipAddress)
Port_DeleteDomainIP ==
    /\ \E d \in Domains, ip \in IPs, ok \in BOOLEAN :
         LET res == DeleteDomainIP(rows, d, ip, ok)
         IN  /\ rows' = res.rows
             /\ pre' = Before(ok)
             /\ lastCall' = PortCall("DeleteDomainIP", d, ip, res.err)
    /\ UNCHANGED <<portFrame, rules>>

\* db.DeleteAllDomainIPs()
Port_DeleteAllDomainIPs ==
    /\ \E ok \in BOOLEAN :
         LET res == DeleteAllDomainIPs(rows, ok)
         IN  /\ rows' = res.rows
             /\ pre' = Before(ok)
             /\ lastCall' = PortCall("DeleteAllDomainIPs", "-", "-", res.err)
    /\ UNCHANGED <<portFrame, rules>>

\* n.AddBlockRule(ctx, ip)
Port_AddBlockRule ==
    /\ \E ip \in IPs, ok \in BOOLEAN :
         LET res == AddBlockRule(rules, ip, ok)
         IN  /\ ok => rules[ip] < MaxRules
             /\ rules' = res.rules
             /\ pre' = Before(ok)
             /\ lastCall' = PortCall("AddBlockRule", "-", ip, res.err)
    /\ UNCHANGED <<portFrame, rows>>

\* n.RemoveBlockRule(ctx, ip)
Port_RemoveBlockRule ==
    /\ \E ip \in IPs, ok \in BOOLEAN :
         LET res == RemoveBlockRule(rules, ip, ok)
         IN  /\ rules' = res.rules
             /\ pre' = Before(ok)
             /\ lastCall' = PortCall("RemoveBlockRule", "-", ip, res.err)
    /\ UNCHANGED <<portFrame, rows>>

NextPorts ==
    \/ Port_CreateDomainIP
    \/ Port_DeleteDomainIP
    \/ Port_DeleteAllDomainIPs
    \/ Port_AddBlockRule
    \/ Port_RemoveBlockRule

SpecPorts == InitPorts /\ [][NextPorts]_vars

(***************************************************************************)
(* The additive engine over the shipped resolver: every ResolveIPs call of *)
(* discoverAllIPs runs the retry loop of dnsResolverImpl under the context *)
(* of the pass                                                             *)
(***************************************************************************)
InitShipped ==
    /\ InitResolver
    /\ retryAttempts <= MaxShippedRetry

\* the scheduler starts a pass on a machine whose marker file system works
Shipped_StartPass ==
    /\ StartPass
    /\ fsFault' = "none"

\* discoverAllIPs enters uc.dnsResolver.ResolveIPs(ctx, domain)
Shipped_ResolveIPs ==
    /\ pc \in {"resolve", "reresolve"}
    /\ rpc = "idle"
    /\ answers' = <<>>
    /\ lastErr' = "none"
    /\ attempt' = 0
    /\ IF LoopGoesOn(0, retryAttempts)
       THEN rpc' = "lookup" /\ result' = NoResult
       ELSE rpc' = "done" /\ result' = Exhausted(retryAttempts, "none")
    /\ UNCHANGED <<engineVars, retryAttempts, cancelled>>

\* ResolveIPs has returned to discoverAllIPs; the error of its last failed
\* lookup stays in the log
Returned ==
    /\ rpc' = "idle"
    /\ attempt' = 0
    /\ answers' = <<>>
    /\ result' = NoResult
    /\ UNCHANGED <<retryAttempts, lastErr>>

\* the first resolution of a domain returns what the resolver found
Shipped_Initial ==
    /\ rpc = "done"
    /\ InitialResolved(result.err = "none", result.ips)
    /\ Returned

\* a re-resolution of the loop returns what the resolver found
Shipped_Iterate ==
    /\ rpc = "done"
    /\ ReResolved(result.err = "none", result.ips)
    /\ Returned

\* one step of the engine or of the resolver under it
ShippedStep ==
    \/ ProcessAllDomains_CheckReboot
    \/ ProcessAllDomains_Cleanup
    \/ ProcessAllDomains_GetAllDomains
    \/ Shipped_ResolveIPs
    \/ ResolveIPs_Lookup
    \/ ResolveIPs_Backoff
    \/ Shipped_Initial
    \/ discoverAllIPs_Wait
    \/ Shipped_Iterate
    \/ updateFirewallRules_Diff
    \/ addIP_AddBlockRule
    \/ addIP_CreateDomainIP
    \/ addIP_Rollback

NextShipped ==
    \/ Shipped_StartPass
    \/ Cancel
    \/ ShippedStep

SpecShipped == InitShipped /\ [][NextShipped]_vars

\* every call returns: a pass that can take a step takes one
SpecShippedFair == SpecShipped /\ WF_vars(ShippedStep)

TypeOK ==
    /\ variant \in Variants
    /\ cancelled \in BOOLEAN
    /\ rows \in [Domains \X IPs -> 0..MaxRows]
    /\ rules \in [IPs -> 0..MaxRules]
    /\ di \in 0..Len(DomainList)
    /\ iteration \in 0..maxIterations
    /\ nCalls \in 0..maxIterations
    /\ lastAns \subseteq IPs
    /\ firstPass \in BOOLEAN
    /\ retErr \in {"none", "nil", "err"}
    /\ retryAttempts \in RetryConfigs
    /\ rpc \in {"idle", "lookup", "backoff", "done"}
    /\ attempt \in 0..(MaxRetryAttempts + 1)
    /\ result.err \in {"none", "exhausted", "ctx"}
    /\ unblockFailed \subseteq IPs
    /\ untouched \subseteq IPs

(***************************************************************************)
(* Properties                                                              *)
(***************************************************************************)
PassEnded == pc = "idle" /\ retErr # "none"

\* a pass ran to its end and none of its calls failed
CleanPassEnded == pc = "idle" /\ retErr = "nil" /\ clean

Blocked == {ip \in IPs : rules[ip] > 0}

\* positions at which the engine is about to issue a mutating call
MutatingPCs == {"deleteAll", "addBlockRule", "createDomainIP", "rollback",
                "deleteDomainIP", "removeBlockRule"}

\* C1: (additive policy, the one with the reboot check) after a pass in
\* which no call failed, in a boot whose reboot reset worked, the stored
\* rows of every domain are exactly its discovered set and the blocked IPs
\* are exactly the discovered ones
C1_ExactAfterCleanPass ==
    (variant = "additive" /\ CleanPassEnded /\ ~resetFailed) =>
        /\ \A d \in Domains :
              lastDisc[d].ok /\ StoredIPs(rows, d) = lastDisc[d].ips
        /\ Blocked = UNION {lastDisc[d].ips : d \in Domains}

\* C2: while a pass repeats the discoveries of the clean pass before it in
\* the same boot and none of its calls has failed, the engine never stands
\* before a mutating call
C2_SecondRunIssuesNoMutation ==
    (prevClean /\ clean) => pc \notin MutatingPCs

\* a quiet second pass ran to its end over a non-empty store and chain
C2_Witness ==
    /\ prevClean /\ CleanPassEnded
    /\ rows # NoRows
    /\ Blocked # {}

\* C3: (additive policy) a pass without failures leaves every discovered IP
\* of every domain with a stored row and an active drop rule, whatever
\* disturbed the passes before it
C3_CleanPassConverges ==
    (variant = "additive" /\ CleanPassEnded) =>
        \A d \in Domains : \A ip \in lastDisc[d].ips :
            rows[<<d, ip>>] > 0 /\ rules[ip] > 0

C5_ResetBeforeGetAllDomains ==
    (variant = "additive" /\ pc = "getAllDomains" /\ probedAbsent /\ rows # NoRows)
        => cleanupCalled

\* C6: a pass whose probe found the marker missing has called
\* DeleteAllDomainIPs once it processes domains, also when the directory or
\* the file of the marker could not be created
C6_ResetIsDefault ==
    (probedAbsent /\ listed = "ok") => cleanupCalled

\* C7: ProcessAllDomains returns an error exactly when GetAllDomains failed,
\* and then GetAllDomains is its last call and no discovery was started
C7_ErrorIffGetAllDomainsFails ==
    /\ PassEnded => (retErr = "err" <=> listed = "err")
    /\ listed = "err" =>
          /\ pc = "idle"
          /\ started = <<>>
          /\ lastCall.op = "GetAllDomains"

\* the pass returned the error of GetAllDomains after the reboot detector
\* had failed in the same pass
C7_Witness ==
    /\ PassEnded
    /\ retErr = "err"
    /\ listed = "err"
    /\ rebootErr

\* C8: the domains whose discovery was started are a prefix of the list that
\* grows with the domain index, and a pass that listed the domains ends only
\* after it started the discovery of every one of them
C8_EveryDomainIsStarted ==
    /\ \E n \in 0..Len(DomainList) : started = SubSeq(DomainList, 1, n)
    /\ pc \in {"wait", "reresolve", "getDomainIPs", "addBlockRule",
               "createDomainIP", "rollback", "deleteDomainIP",
               "removeBlockRule"} => Len(started) = di
    /\ pc = "resolve" => Len(started) = di - 1
    /\ (PassEnded /\ listed = "ok") => started = DomainList

\* the pass went through the whole list although a call failed for the first
\* domain
C8_Witness ==
    /\ PassEnded
    /\ started = DomainList
    /\ "a.example" \in failed

\* C9: after a failed AddBlockRule the engine does not stand before the
\* CreateDomainIP of that IP, the IP has no row, and while IPs to add remain
\* the engine stands before the AddBlockRule of one of them
C9_FailedAddIsSkipped ==
    (lastCall.op = "AddBlockRule" /\ ~lastCall.ok) =>
        /\ pc # "createDomainIP"
        /\ rows[<<lastCall.dom, lastCall.arg>>] = 0
        /\ ipsToAdd # {} => pc = "addBlockRule"

\* a pass ended in which the firewall step failed for one IP of a domain and
\* succeeded for the other: only the other IP has a row and a rule
C9_Witness ==
    /\ PassEnded /\ ~cancelled
    /\ lastCall.op = "AddBlockRule" /\ ~lastCall.ok
    /\ failed = {lastCall.dom}
    /\ \E other \in IPs \ {lastCall.arg} :
          /\ Pairs(rows) = {<<lastCall.dom, other>>}
          /\ Blocked = {other}

\* C10: a probe that finds the marker file makes CheckAndHandleReboot return
\* (false, nil) and leaves the marker directory and file as they are
C10_MarkerPresentIsNoop ==
    [][(pc = "checkReboot" /\ flagFileExists /\ fsFault # "stat") =>
          /\ cleanupNeeded' = FALSE
          /\ rebootErr' = FALSE
          /\ UNCHANGED fsVars]_vars

\* the detector has just answered a probe that found the marker
C10_Witness ==
    /\ pc = "getAllDomains"
    /\ lastCall.op = "CheckAndHandleReboot" /\ lastCall.ok
    /\ ~probedAbsent
    /\ flagFileExists
    /\ ~cleanupNeeded /\ ~rebootErr

\* C11: after a probe that found the marker missing, the detector has
\* returned (true, nil), whatever happened to the directory and the file
C11_AbsentReturnsTrueNil ==
    (lastCall.op = "CheckAndHandleReboot" /\ probedAbsent) =>
        cleanupNeeded /\ ~rebootErr

\* a detector call ends; Cancel leaves pc where it is
DetectorReturns == pc = "checkReboot" /\ pc' # "checkReboot"

\* C12 (as stated): once the marker exists every later detector call returns
\* (false, nil), and DeleteAllDomainIPs is called in the first pass of a boot
\* only
C12_EveryLaterCallFalseNil ==
    /\ [][(DetectorReturns /\ flagFileExists) =>
             (cleanupNeeded' = FALSE /\ rebootErr' = FALSE)]_vars
    /\ [](cleanupCalled => firstPass)

\* C12 (amended): the marker, once created, stays until the reboot; a
\* detector call that starts with the marker in place never asks for the
\* cleanup, returns (false, nil) when its probe succeeds, and the pass goes
\* to GetAllDomains without DeleteAllDomainIPs
C12_OncePerBoot ==
    /\ [][(flagFileExists /\ ~(pc = "idle" /\ pc' = "idle")) =>
             flagFileExists']_vars
    /\ [][(DetectorReturns /\ flagFileExists) =>
             /\ cleanupNeeded' = FALSE
             /\ fsFault # "stat" => rebootErr' = FALSE
             /\ pc' = "getAllDomains"
             /\ cleanupCalled' = FALSE]_vars

\* a later pass of the boot found the marker and goes on without cleanup
\* over a non-empty store
C12_Witness ==
    /\ ~firstPass
    /\ pc = "getAllDomains"
    /\ lastCall.op = "CheckAndHandleReboot" /\ lastCall.ok
    /\ flagFileExists /\ ~probedAbsent
    /\ ~cleanupCalled
    /\ rows # NoRows

\* C13: a probe that fails for another reason than not-exist makes the
\* detector return an error and leave directory and file alone; the pass
\* then does not call DeleteAllDomainIPs, goes to GetAllDomains and starts
\* every listed domain
C13_ProbeErrorSkipsCleanup ==
    /\ [][(DetectorReturns /\ fsFault = "stat") =>
             /\ rebootErr' = TRUE
             /\ UNCHANGED fsVars
             /\ pc' = "getAllDomains"]_vars
    /\ []((rebootErr /\ ~cleanupNeeded) =>
             /\ ~cleanupCalled
             /\ pc # "deleteAll"
             /\ (PassEnded /\ listed = "ok") => started = DomainList)

\* a pass ended after a failed probe: no marker, no cleanup, rows kept, all
\* domains started
C13_Witness ==
    /\ PassEnded
    /\ rebootErr /\ ~cleanupNeeded
    /\ ~flagFileExists
    /\ ~cleanupCalled
    /\ rows # NoRows
    /\ started = DomainList

\* the iteration maximum discoverAllIPs is meant to work with
ConfiguredMax ==
    IF configMaxDNSIterations <= 0
    THEN DefaultMaxDNSIterations
    ELSE configMaxDNSIterations

\* a re-resolution of the loop returns; Cancel leaves pc where it is
ReResolveReturns == pc = "reresolve" /\ pc' # "reresolve"

\* the initial resolution of a domain returns
InitialResolveReturns == pc = "resolve" /\ started' # started

\* C14: a successful re-resolution without an address outside the
\* accumulated set ends the discovery with the accumulated set; one with a
\* new address merges it and, below the maximum, goes on to the next wait
C14_StopsWhenStable ==
    [][(ReResolveReturns /\ lastCall'.ok) =>
          IF lastAns' \subseteq ipsMap
          THEN /\ pc' = "getDomainIPs"
               /\ ipsMap' = ipsMap
          ELSE /\ ipsMap' = ipsMap \cup lastAns'
               /\ iteration + 1 < ConfiguredMax => pc' = "wait"]_vars

\* answers {A}, then B new, then {A,B}: three calls, result {A,B}, with a
\* maximum above three
C14_Witness ==
    /\ pc = "getDomainIPs"
    /\ lastCall.op = "ResolveIPs" /\ lastCall.ok
    /\ nCalls = 3
    /\ ConfiguredMax > 3
    /\ lastAns = IPs
    /\ ipsMap = IPs

\* C15: a failed re-resolution ends the loop and the discovery returns the
\* non-empty set accumulated before it, without an error
C15_FailedReResolveKeepsSet ==
    [][(ReResolveReturns /\ ~lastCall'.ok) =>
          /\ pc' = "getDomainIPs"
          /\ ipsMap' = ipsMap
          /\ ipsMap # {}]_vars

\* {A}, then an error: the discovery returned {A} after two calls
C15_Witness ==
    /\ pc = "getDomainIPs"
    /\ lastCall.op = "ResolveIPs" /\ ~lastCall.ok
    /\ ~cancelled
    /\ nCalls = 2
    /\ Cardinality(ipsMap) = 1

\* C16: a failed initial resolution fails the domain: the engine goes to the
\* next domain (or returns) without GetDomainIPs and with rows and rules as
\* they were
C16_FailedInitialSkipsDomain ==
    [][(InitialResolveReturns /\ ~lastCall'.ok) =>
          /\ \/ pc' = "resolve" /\ di' = di + 1
             \/ pc' = "idle" /\ di = Len(DomainList)
          /\ Domain \in failed'
          /\ rows' = rows
          /\ rules' = rules]_vars

\* the resolution of a.example failed without cancellation, its rows are
\* still stored and b.example is next
C16_Witness ==
    /\ pc = "resolve" /\ di = 2
    /\ lastCall = [op |-> "ResolveIPs", dom |-> "a.example",
                   arg |-> "a.example", ok |-> FALSE]
    /\ ~cancelled
    /\ StoredIPs(rows, "a.example") # {}

\* C17: an initial resolution that succeeds with no address ends the
\* discovery after this one call with the empty set, and the domain goes on
\* to GetDomainIPs without being counted as failed
C17_EmptyAnswerIsNoError ==
    [][(InitialResolveReturns /\ lastCall'.ok /\ lastAns' = {}) =>
          /\ pc' = "getDomainIPs"
          /\ di' = di
          /\ ipsMap' = {}
          /\ nCalls' = 1
          /\ failed' = failed]_vars

\* a domain with stored rows is about to be reconciled against the empty set
C17_Witness ==
    /\ variant = "additive"
    /\ pc = "getDomainIPs"
    /\ lastCall.op = "ResolveIPs" /\ lastCall.ok
    /\ nCalls = 1
    /\ lastAns = {}
    /\ ipsMap = {}
    /\ Domain \notin failed
    /\ StoredIPs(rows, Domain) # {}

\* C18: a wait that ends under a cancelled context fails the domain: the
\* accumulated set is dropped, the engine goes to the next domain (or
\* returns), rows and rules are as they were
C18_CancelledWaitFails ==
    [][(pc = "wait" /\ cancelled /\ pc' # "wait") =>
          /\ \/ pc' = "resolve" /\ di' = di + 1
             \/ pc' = "idle" /\ di = Len(DomainList)
          /\ ipsMap' = {}
          /\ Domain \in failed'
          /\ rows' = rows
          /\ rules' = rules]_vars

\* a.example was given up after a successful resolution under cancellation
C18_Witness ==
    /\ cancelled
    /\ pc = "resolve" /\ di = 2
    /\ lastCall = [op |-> "ResolveIPs", dom |-> "a.example",
                   arg |-> "a.example", ok |-> TRUE]
    /\ "a.example" \in failed

C20_NoMutationCallAfterCancel ==
    [][(cancelled /\ lastCall' # lastCall) =>
          lastCall'.op \notin {"AddBlockRule", "RemoveBlockRule",
                               "CreateDomainIP", "DeleteDomainIP"}]_vars

\* a lookup that did not yield an address
FailedLookup(o) == o.err \/ o.addrs = {}

\* C21: one ResolveIPs call makes at most retryAttempts+1 lookups; when it
\* returns addresses they are those of its latest lookup and every lookup
\* before that one failed (it returned at the first success); when all
\* retryAttempts+1 lookups failed it returns the error that reports
\* retryAttempts+1 attempts and wraps the error of the last lookup
C21_BoundedRetry ==
    /\ Len(answers) <= retryAttempts + 1
    /\ (rpc = "done" /\ result.err = "none") =>
          /\ Len(answers) >= 1
          /\ ~FailedLookup(answers[Len(answers)])
          /\ result.ips = answers[Len(answers)].addrs
          /\ \A i \in 1..(Len(answers) - 1) : FailedLookup(answers[i])
    /\ (/\ rpc = "done"
        /\ Len(answers) = retryAttempts + 1
        /\ \A i \in 1..Len(answers) : FailedLookup(answers[i])) =>
          /\ result.err = "exhausted"
          /\ result.attempts = retryAttempts + 1
          /\ result.cause = resolveWithTimeout(answers[Len(answers)]).err
          /\ result.cause # "none"

\* with two retries configured a call returned after three failed lookups
C21_Witness ==
    /\ rpc = "done"
    /\ retryAttempts = 2
    /\ Len(answers) = 3
    /\ result.err = "exhausted"
    /\ result.attempts = 3

\* C22: ResolveIPs never returns an empty list with a nil error: a lookup
\* that yields no address is a failed attempt, followed by a retry or by
\* the error
C22_NeverEmptyWithoutError ==
    /\ (rpc = "done" /\ result.err = "none") => result.ips # {}
    /\ \A i \in 1..Len(answers) :
          (~answers[i].err /\ answers[i].addrs = {}) =>
              \/ i < Len(answers)
              \/ rpc \in {"lookup", "backoff"}
              \/ rpc = "done" /\ result.err \in {"exhausted", "ctx"}

\* a call went on after a lookup without addresses and returned the
\* addresses of a later lookup
C22_Witness ==
    /\ rpc = "done"
    /\ result.err = "none"
    /\ result.ips # {}
    /\ \E i \in 1..Len(answers) : ~answers[i].err /\ answers[i].addrs = {}

\* C23: RemoveBlockRule returns no error to its caller, whatever the chain
\* holds (a rule for the address or none) and whether or not the delete
\* command succeeds; so no RemoveBlockRule call of the engine, the rollback
\* of addIP among them, is seen to fail
C23_RemoveBlockRuleReturnsNil ==
    /\ \A ip \in IPs, ok \in BOOLEAN : ~RemoveBlockRule(rules, ip, ok).err
    /\ lastCall.op = "RemoveBlockRule" => lastCall.ok

\* additive policy (RemoveBlockRule is called by the rollback only): the
\* delete command of a rollback failed, as the chain still holds as many
\* rules for the address as it is followed to, and nil was returned
C23_Witness ==
    /\ variant = "additive"
    /\ lastCall.op = "RemoveBlockRule"
    /\ lastCall.ok
    /\ rules[lastCall.arg] = MaxRules

\* C24: AddBlockRule is idempotent: a successful AddBlockRule(ip) on a
\* chain that holds a rule for ip already leaves the chain as it is, no
\* address has more than one rule, and one successful RemoveBlockRule(ip)
\* leaves no rule for ip
C24_AddBlockRuleIdempotent ==
    /\ \A ip \in IPs : rules[ip] <= 1
    /\ (/\ lastCall.op = "AddBlockRule"
        /\ lastCall.ok
        /\ pre.rules[lastCall.arg] > 0) => rules = pre.rules
    /\ (/\ lastCall.op = "RemoveBlockRule"
        /\ pre.cmd
        /\ pre.rules[lastCall.arg] > 0) => rules[lastCall.arg] = 0

\* C25: the table never holds more than one row for a (domain, ip) pair: a
\* CreateDomainIP for a pair that is stored fails and adds no row
C25_AtMostOneRowPerPair ==
    /\ \A p \in Domains \X IPs : rows[p] <= 1
    /\ (/\ lastCall.op = "CreateDomainIP"
        /\ pre.rows[<<lastCall.dom, lastCall.arg>>] > 0) =>
          ~lastCall.ok /\ rows = pre.rows

\* C26: DeleteDomainIP(domain, ip) on a table that holds the pair removes
\* it, returns nil and leaves every other pair as it was; on a table that
\* does not hold the pair it returns the not-found error and leaves the
\* table as it was; the chain is never touched
C26_DeleteDomainIPRemovesExactlyThePair ==
    lastCall.op = "DeleteDomainIP" =>
        LET p == <<lastCall.dom, lastCall.arg>>
        IN  /\ (pre.rows[p] > 0 /\ pre.cmd) =>
                  /\ lastCall.ok
                  /\ rows[p] = 0
                  /\ \A q \in (Domains \X IPs) \ {p} : rows[q] = pre.rows[q]
            /\ pre.rows[p] = 0 => (~lastCall.ok /\ rows = pre.rows)
            /\ ~lastCall.ok => rows = pre.rows
            /\ rules = pre.rules

\* a stored pair was deleted while the same domain keeps another address
C26_Witness ==
    /\ lastCall.op = "DeleteDomainIP"
    /\ lastCall.ok
    /\ pre.rows[<<lastCall.dom, lastCall.arg>>] > 0
    /\ rows[<<lastCall.dom, lastCall.arg>>] = 0
    /\ \E ip \in IPs \ {lastCall.arg} : rows[<<lastCall.dom, ip>>] > 0

CreateDomainIPCalled == pc = "createDomainIP" /\ pc' # "createDomainIP"

RollbackCalled == pc = "rollback" /\ pc' # "rollback"

RemovalRuleCalled == pc = "removeBlockRule" /\ pc' # "removeBlockRule"

DeleteDomainIPCalled == pc = "deleteDomainIP" /\ ipsToRemove' # ipsToRemove

\* C28: CreateDomainIP(domain, ip) is called only directly after an
\* AddBlockRule(ip) of the same step that returned nil, and a row is
\* inserted only by such a call: never for an address whose rule was not
\* added successfully just before
C28_RuleBeforeRow ==
    [][/\ CreateDomainIPCalled =>
             /\ lastCall = Call("AddBlockRule", curIP, TRUE)
             /\ lastCall'.op = "CreateDomainIP"
             /\ lastCall'.dom = Domain
             /\ lastCall'.arg = curIP
       /\ \A p \in Domains \X IPs :
             rows'[p] > rows[p] =>
                 /\ CreateDomainIPCalled
                 /\ lastCall = [op |-> "AddBlockRule", dom |-> p[1],
                                arg |-> p[2], ok |-> TRUE]
                 /\ rules[p[2]] > 0
      ]_vars

\* a row was inserted after the rule of its address had been added
C28_Witness ==
    /\ lastCall.op = "CreateDomainIP"
    /\ lastCall.ok
    /\ rows[<<lastCall.dom, lastCall.arg>>] = 1
    /\ rules[lastCall.arg] = 1

\* C29: a failed CreateDomainIP(domain, ip) inserts no row and is followed
\* by the rollback; the rollback is entered in no other way and is one
\* RemoveBlockRule(ip) call that changes no row, raises no error to the
\* caller of the pass and goes on with the remaining IPs of the domain
C29_RollbackOnFailedPersistence ==
    [][/\ (CreateDomainIPCalled /\ ~lastCall'.ok) =>
             /\ pc' = "rollback"
             /\ rows' = rows
             /\ curIP' = curIP
             /\ retErr' = retErr
       /\ (pc' = "rollback" /\ pc # "rollback") =>
             (CreateDomainIPCalled /\ ~lastCall'.ok)
       /\ RollbackCalled =>
             /\ lastCall' = Call("RemoveBlockRule", curIP, TRUE)
             /\ rows' = rows
             /\ retErr' # "err"
             /\ ipsToAdd' = ipsToAdd
             /\ ipsToAdd # {} => (pc' = "addBlockRule" /\ di' = di)
      ]_vars

\* a rollback was made for an address that has no row, and the next IP of
\* the same domain is about to be added
C29_Witness ==
    /\ variant = "additive"
    /\ lastCall.op = "RemoveBlockRule"
    /\ pc = "addBlockRule"
    /\ ipsToAdd # {}
    /\ rows[<<lastCall.dom, lastCall.arg>>] = 0

\* C30: (two-way policy) RemoveBlockRule(ip) of the removal loop is called
\* only directly after a DeleteDomainIP(domain, ip) that returned nil; a
\* failed DeleteDomainIP leaves the chain alone; after either call the loop
\* goes on with the remaining obsolete IPs
C30_RowBeforeRule ==
    [][/\ RemovalRuleCalled =>
             /\ variant = "twoway"
             /\ lastCall = Call("DeleteDomainIP", curIP, TRUE)
             /\ rows[<<Domain, curIP>>] = 0
             /\ lastCall'.op = "RemoveBlockRule"
             /\ lastCall'.arg = curIP
             /\ ipsToRemove' = ipsToRemove
             /\ ipsToRemove # {} => (pc' = "deleteDomainIP" /\ di' = di)
       /\ DeleteDomainIPCalled =>
             /\ lastCall'.op = "DeleteDomainIP"
             /\ lastCall'.arg \in ipsToRemove
             /\ ipsToRemove' = ipsToRemove \ {lastCall'.arg}
             /\ rules' = rules
             /\ lastCall'.ok =>
                   (pc' = "removeBlockRule" /\ curIP' = lastCall'.arg)
             /\ ~lastCall'.ok =>
                   /\ pc' # "removeBlockRule"
                   /\ ipsToRemove' # {} => (pc' = "deleteDomainIP" /\ di' = di)
      ]_vars

\* the row and then the rule of one obsolete IP were removed and the next
\* obsolete IP of the same domain is about to be removed
C30_Witness ==
    /\ variant = "twoway"
    /\ lastCall.op = "RemoveBlockRule"
    /\ pc = "deleteDomainIP"
    /\ ipsToRemove # {}
    /\ rows[<<lastCall.dom, lastCall.arg>>] = 0
    /\ rules[lastCall.arg] = 0

\* the addresses discovered by the pass that has just ended without a failure
DiscoveredInPass == UNION {lastDisc[d].ips : d \in Domains}

\* C31: (two-way policy) when DeleteDomainIP(domain, ip) succeeded and the
\* delete command of the rule for ip failed, so that the rule stayed in the
\* chain, then at the end of every later pass without a failure in which ip
\* was not resolved for any domain the rule for ip is gone
C31_StaleRuleRemovedByNextCleanPass ==
    (variant = "twoway" /\ CleanPassEnded) =>
        \A ip \in unblockFailed \ DiscoveredInPass : rules[ip] = 0

\* the engine calls AddBlockRule in this step
AddBlockRuleCalled == pc = "addBlockRule" /\ ipsToAdd' # ipsToAdd

\* the positions of the loops over the diff of one domain
LoopPCs == {"addBlockRule", "createDomainIP", "rollback", "deleteDomainIP",
            "removeBlockRule"}

\* C32: an IP that is both stored for the domain and discovered for it is
\* in no list of the diff, and no AddBlockRule, RemoveBlockRule,
\* CreateDomainIP or DeleteDomainIP of the pass has it as argument, so that
\* its row and its rule stay as they are; AddBlockRule is called only for
\* IPs that were discovered and are not stored
C32_UntouchedIntersection ==
    [][/\ (pc = "getDomainIPs" /\ pc' \in LoopPCs) =>
             /\ untouched' = StoredIPs(rows, Domain) \cap ipsMap
             /\ ipsToAdd' = ipsMap \ StoredIPs(rows, Domain)
             /\ ipsToRemove' \cap ipsMap = {}
       /\ pc \in LoopPCs =>
             /\ ipsToAdd' \subseteq ipsToAdd
             /\ ipsToRemove' \subseteq ipsToRemove
             /\ \A ip \in untouched :
                   /\ rows'[<<Domain, ip>>] = rows[<<Domain, ip>>]
                   /\ rules'[ip] = rules[ip]
       /\ (\/ AddBlockRuleCalled
           \/ CreateDomainIPCalled
           \/ RollbackCalled
           \/ DeleteDomainIPCalled
           \/ RemovalRuleCalled) =>
             /\ lastCall'.dom = Domain
             /\ lastCall'.arg \notin untouched
             /\ lastCall'.arg \in ipsToAdd \cup ipsToRemove \cup {curIP}
       /\ AddBlockRuleCalled =>
             /\ lastCall'.op = "AddBlockRule"
             /\ lastCall'.arg \in ipsToAdd
             /\ lastCall'.arg \notin StoredIPs(rows, Domain)
      ]_vars

\* store {10.0.0.1}, resolver {10.0.0.1, 10.0.0.2}: 10.0.0.2 has been added
\* and 10.0.0.1 is as it was
C32_Witness ==
    /\ variant = "additive"
    /\ untouched = {"10.0.0.1"}
    /\ lastCall = [op |-> "AddBlockRule", dom |-> "a.example",
                   arg |-> "10.0.0.2", ok |-> TRUE]
    /\ rows[<<"a.example", "10.0.0.1">>] = 1
    /\ rules["10.0.0.1"] = 1
    /\ rules["10.0.0.2"] = 1

\* the step is not the reboot of the machine (the only step from idle to idle)
BootGoesOn == ~(pc = "idle" /\ pc' = "idle")

\* C33 as stated: (additive policy) a row persisted in this boot whose rule
\* is in place keeps its rule and stays stored in every later step of the
\* same boot
C33_MonotoneWithinBoot ==
    [][(variant = "additive" /\ BootGoesOn /\ ~stale) =>
           \A p \in Domains \X IPs :
               (rows[p] > 0 /\ rules[p[2]] > 0) =>
                   (rows'[p] > 0 /\ rules'[p[2]] > 0)
      ]_vars

\* C33 amended: (additive policy) within a boot rows are deleted only by
\* the reboot cleanup DeleteAllDomainIPs, DeleteDomainIP is never called,
\* a rule is taken out only by the rollback RemoveBlockRule of the step
\* whose CreateDomainIP failed, and an IP with a row persisted in this boot
\* keeps a rule in every step
C33_MonotoneExceptCleanup ==
    [][(variant = "additive" /\ BootGoesOn) =>
           /\ \A p \in Domains \X IPs : rows'[p] < rows[p] => pc = "deleteAll"
           /\ lastCall'.op # "DeleteDomainIP"
           /\ pc' \notin {"deleteDomainIP", "removeBlockRule"}
           /\ \A ip \in IPs :
                 rules'[ip] < rules[ip] =>
                     /\ RollbackCalled
                     /\ ip = curIP
                     /\ lastCall = Call("CreateDomainIP", ip, FALSE)
           /\ ~stale =>
                 \A p \in Domains \X IPs :
                     (rows[p] > 0 /\ rules[p[2]] > 0) => rules'[p[2]] > 0
      ]_vars

\* a later pass of the boot has repeated the cleanup: the table is empty
\* again and the rule added in an earlier pass is still in the chain
C33_Witness ==
    /\ variant = "additive"
    /\ ~firstPass
    /\ ~stale
    /\ lastCall = [op |-> "DeleteAllDomainIPs", dom |-> "-", arg |-> "-",
                   ok |-> TRUE]
    /\ rows = NoRows
    /\ rules["10.0.0.1"] = 1

\* C34: a successful re-resolution (with at least one address, as the
\* shipped resolver returns it) ends the discovery when its result is the
\* result of the resolution before it, and otherwise, below the maximum
\* count, is followed by the next wait and resolution
C34_StopsIffSameAsPrevious ==
    [][(ReResolveReturns /\ lastCall'.ok /\ lastAns' # {}) =>
          IF lastAns' = lastAns
          THEN pc' = "getDomainIPs"
          ELSE iteration + 1 < ConfiguredMax => pc' = "wait"]_vars

\* the backoff select of ResolveIPs returns in this step
BackoffReturns == rpc = "backoff" /\ rpc' # "backoff"

\* C35: when the context is done while ResolveIPs waits between two
\* attempts, the wait ends with the context error as the result of the call
\* and without another lookup; the call waits only after a failed attempt
\* that is not the last one, so the last attempt is followed by the return
C35_CancelledBackoffReturns ==
    [][/\ (BackoffReturns /\ cancelled) =>
             /\ rpc' = "done"
             /\ result'.err = "ctx"
             /\ result'.ips = {}
             /\ answers' = answers
             /\ Len(answers) <= retryAttempts
       /\ (rpc = "done" /\ rpc' = "done") => answers' = answers
       /\ rpc' = "backoff" =>
             /\ attempt' < retryAttempts
             /\ Len(answers') = attempt' + 1
       /\ (rpc = "lookup" /\ attempt = retryAttempts /\ answers' # answers) =>
             rpc' = "done"
      ]_vars

\* a call was cancelled in its first wait and returned the context error
\* after one of its up to four lookups
C35_Witness ==
    /\ rpc = "done"
    /\ cancelled
    /\ result.err = "ctx"
    /\ retryAttempts = MaxRetryAttempts
    /\ Len(answers) = 1

\* C37: the chain holds at most one drop rule per IP in every state of every
\* sequence of passes
C37_NoDuplicateRules == \A ip \in IPs : rules[ip] <= 1

\* the calls on the domain table that would write a domain record
DomainWrites == {"CreateDomain", "UpdateDomain", "DeleteDomain"}

\* the pairs whose rows differ between the two states of a step
ChangedPairs == {p \in Domains \X IPs : rows'[p] # rows[p]}

\* C38: no step of a pass issues a call that writes a domain record; apart
\* from the cleanup, which empties the table, a step changes the rows of at
\* most one pair, this pair belongs to the domain in work, and the change
\* is the insert of CreateDomainIP or the delete of DeleteDomainIP for that
\* pair (no row is rewritten into another one)
C38_EngineFrame ==
    [][/\ lastCall'.op \notin DomainWrites
       /\ ChangedPairs # {} =>
             \/ /\ pc = "deleteAll"
                /\ lastCall'.op = "DeleteAllDomainIPs"
                /\ rows' = NoRows
             \/ /\ CreateDomainIPCalled
                /\ lastCall'.op = "CreateDomainIP"
                /\ ChangedPairs = {<<Domain, curIP>>}
                /\ rows'[<<Domain, curIP>>] = rows[<<Domain, curIP>>] + 1
             \/ /\ DeleteDomainIPCalled
                /\ lastCall'.op = "DeleteDomainIP"
                /\ ChangedPairs = {<<Domain, lastCall'.arg>>}
                /\ rows'[<<Domain, lastCall'.arg>>] = 0
      ]_vars

\* the row of b.example for an address was deleted while a.example, which
\* shares the address, keeps its row
C38_Witness ==
    /\ lastCall.op = "DeleteDomainIP"
    /\ lastCall.dom = "b.example"
    /\ lastCall.ok
    /\ rows[<<"b.example", lastCall.arg>>] = 0
    /\ rows[<<"a.example", lastCall.arg>>] = 1

\* the lookup answered without an error and without an IPv4 address
ZeroLookup(o) == ~o.err /\ o.addrs = {}

\* C36: (shipped resolver under the additive engine) a first resolution
\* that returns without error holds at least one address, so discovery
\* never hands the empty set to the diff; when the last lookup of the first
\* resolution of a domain yielded zero addresses the resolution counts as
\* failed, the domain is marked failed and skipped, and rows and rules
\* stay as they are
C36_ZeroAddressesIsFailedDiscovery ==
    [][/\ (InitialResolveReturns /\ lastCall'.ok) =>
             /\ lastAns' # {}
             /\ ipsMap' # {}
       /\ (pc # "getDomainIPs" /\ pc' = "getDomainIPs") => ipsMap' # {}
       /\ (/\ InitialResolveReturns
           /\ Len(answers) > 0
           /\ ZeroLookup(answers[Len(answers)])) =>
             /\ ~lastCall'.ok
             /\ lastErr = "no IPv4"
             /\ Domain \in failed'
             /\ rows' = rows
             /\ rules' = rules
             /\ ipsToAdd' = {}
             /\ \/ pc' = "resolve" /\ di' = di + 1
                \/ pc' = "idle" /\ di = Len(DomainList)
      ]_vars

\* the lookups of a.example found no IPv4 address: its resolution failed,
\* its row and its rule are still there and b.example is next
C36_Witness ==
    /\ pc = "resolve" /\ di = 2
    /\ rpc = "idle"
    /\ lastCall = [op |-> "ResolveIPs", dom |-> "a.example",
                   arg |-> "a.example", ok |-> FALSE]
    /\ lastErr = "no IPv4"
    /\ ~cancelled
    /\ "a.example" \in failed
    /\ rows[<<"a.example", "10.0.0.1">>] = 1
    /\ rules["10.0.0.1"] = 1

\* C39: (shipped resolver under the additive engine, every call returns)
\* one discovery makes at most the configured maximum of resolutions, one
\* ResolveIPs call at most retryAttempts+1 lookups, every loop step takes
\* its IP out of the diff, and every pass that was started comes to its
\* return
C39_Termination ==
    /\ [](/\ nCalls <= ConfiguredMax
          /\ Len(answers) <= retryAttempts + 1
          /\ pc \in {"addBlockRule", "createDomainIP"} => curIP \notin ipsToAdd)
    /\ (pc # "idle") ~> (pc = "idle" /\ retErr # "none")

\* a pass over both domains has returned without an error, with rows
\* stored, under the largest retry count
C39_Witness ==
    /\ pc = "idle"
    /\ retErr = "nil"
    /\ started = DomainList
    /\ ~cancelled
    /\ rows # NoRows
    /\ retryAttempts = MaxShippedRetry

====
